---- MODULE Spec2Model ----
(***************************************************************************)
(* A model of lighthouse-core/computed/unused-javascript-summary.js:       *)
(* UnusedJavascriptSummary.computeWaste, determineLengths, mergeWaste,     *)
(* createSourceWastedBytes and compute_.                                   *)
(*                                                                         *)
(* JavaScript values are modelled as follows.                              *)
(*   - An optional value (undefined or a value) is a sequence of length    *)
(*     0 or 1: None is undefined, Some(v) is v.                            *)
(*   - A Uint8Array is a sequence of 0/1; its offset i is element i + 1.   *)
(*     A write outside 0..length-1 is ignored and a read outside yields    *)
(*     undefined, as for a typed array.                                    *)
(*   - A number that results from a division is a record                   *)
(*     [kind, num, den]: kind "num" is the rational num/den, kind "nan"    *)
(*     is NaN and kind "inf" is Infinity.                                  *)
(*   - A string is a sequence of characters; a plain object with string    *)
(*     keys is the sequence of its <<key, value>> entries in insertion     *)
(*     order (the keys here are file names, never array indices).          *)
(***************************************************************************)
EXTENDS Integers, Sequences, FiniteSets

VARIABLES networkRecord, scriptCoverages, bundle, pc, wasteData, lengths, item,
          settled, result

vars == <<networkRecord, scriptCoverages, bundle, pc, wasteData, lengths, item,
          settled, result>>

\* ------------------------------------------------------------------ bounds

\* Offsets of the generated inputs run over -1..MaxOffset.
MaxOffset == 3
\* The most ranges one generated coverage holds.
MaxRanges == 2
\* The most executions (script coverages) of one resource.
MaxExecs == 2
\* The largest transfer size a network record reports.
MaxTransfer == 3
\* The most characters of a bundle's generated text.
MaxContent == 2

\* ------------------------------------------------------------------ values

None == <<>>
Some(v) == <<v>>
IsSome(m) == Len(m) = 1
Val(m) == m[1]

Num(n, d) == [kind |-> "num", num |-> n, den |-> d]
NaN == [kind |-> "nan", num |-> 0, den |-> 1]
Infinity == [kind |-> "inf", num |-> 0, den |-> 1]

\* a / b for integers a >= 0 and b >= 0.
JSDiv(a, b) ==
  IF b = 0 THEN (IF a = 0 THEN NaN ELSE Infinity) ELSE Num(a, b)

\* OrZero without the || 0.
OrZeroMissing(x) == x

\* x || 0: NaN and 0 are falsy.
OrZero(x) ==
  IF x.kind = "nan" \/ (x.kind = "num" /\ x.num = 0) THEN Num(0, 1) ELSE x

\* t * x for an integer t >= 0.
JSMul(t, x) ==
  CASE x.kind = "nan" -> NaN
    [] x.kind = "inf" -> (IF t = 0 THEN NaN ELSE Infinity)
    [] OTHER -> Num(t * x.num, x.den)

\* MathRound as Math.floor.
MathRoundDown(x) ==
  IF x.kind = "num" THEN Num(x.num \div x.den, 1) ELSE x

\* Math.round of a number >= 0: the nearest integer, a half rounds up.
MathRound(x) ==
  IF x.kind = "num" THEN Num((2 * x.num + x.den) \div (2 * x.den), 1) ELSE x

\* Math.max of two integers.
MathMax(a, b) == IF a >= b THEN a ELSE b

\* data.unusedByIndex[offset] === 1
IsUnusedAt(unusedByIndex, offset) ==
  /\ offset >= 0
  /\ offset < Len(unusedByIndex)
  /\ unusedByIndex[offset + 1] = 1

\* ------------------------------------------------------------ computeWaste

RECURSIVE MaxEndOffset(_, _)
\* Math.max(maximumEndOffset, ...func.ranges.map(r => r.endOffset))
MaxEndOffset(ranges, maximumEndOffset) ==
  IF ranges = <<>> THEN maximumEndOffset
  ELSE MaxEndOffset(Tail(ranges), MathMax(maximumEndOffset, Head(ranges).endOffset))

RECURSIVE MaximumEndOffset(_, _)
MaximumEndOffset(functions, maximumEndOffset) ==
  IF functions = <<>> THEN maximumEndOffset
  ELSE MaximumEndOffset(Tail(functions), MaxEndOffset(Head(functions), maximumEndOffset))

\* MarkRange with the loop bound i <= range.endOffset.
MarkRangeInclusive(range, unusedByIndex) ==
  IF range.count = 0
  THEN [i \in 1..Len(unusedByIndex) |->
          IF range.startOffset <= i - 1 /\ i - 1 <= range.endOffset
          THEN 1 ELSE unusedByIndex[i]]
  ELSE unusedByIndex

\* MarkRange where a range that ran clears the marks of its offsets (the
\* last range processed decides).
MarkRangeOverwrite(range, unusedByIndex) ==
  [i \in 1..Len(unusedByIndex) |->
     IF range.startOffset <= i - 1 /\ i - 1 < range.endOffset
     THEN (IF range.count = 0 THEN 1 ELSE 0) ELSE unusedByIndex[i]]

\* The inner loop: unusedByIndex[i] = 1 for i in startOffset..endOffset-1, when
\* the range's count is 0.
MarkRange(range, unusedByIndex) ==
  IF range.count = 0
  THEN [i \in 1..Len(unusedByIndex) |->
          IF range.startOffset <= i - 1 /\ i - 1 < range.endOffset
          THEN 1 ELSE unusedByIndex[i]]
  ELSE unusedByIndex

RECURSIVE MarkRanges(_, _)
MarkRanges(ranges, unusedByIndex) ==
  IF ranges = <<>> THEN unusedByIndex
  ELSE MarkRanges(Tail(ranges), MarkRange(Head(ranges), unusedByIndex))

RECURSIVE MarkFunctions(_, _)
MarkFunctions(functions, unusedByIndex) ==
  IF functions = <<>> THEN unusedByIndex
  ELSE MarkFunctions(Tail(functions), MarkRanges(Head(functions), unusedByIndex))

RECURSIVE SumBytes(_)
SumBytes(unusedByIndex) ==
  IF unusedByIndex = <<>> THEN 0
  ELSE Head(unusedByIndex) + SumBytes(Tail(unusedByIndex))

\* A script coverage is the sequence of its functions, a function the
\* sequence of its ranges.
computeWaste(scriptCoverage) ==
  LET maximumEndOffset == MaximumEndOffset(scriptCoverage, 0)
      unusedByIndex ==
        MarkFunctions(scriptCoverage, [i \in 1..maximumEndOffset |-> 0])
  IN [unusedByIndex |-> unusedByIndex,
      unusedLength |-> SumBytes(unusedByIndex),
      contentLength |-> maximumEndOffset]

\* ------------------------------------------- determineLengths, mergeWaste

RECURSIVE SumUnused(_)
SumUnused(wd) ==
  IF wd = <<>> THEN 0 ELSE Head(wd).unusedLength + SumUnused(Tail(wd))

RECURSIVE SumContent(_)
SumContent(wd) ==
  IF wd = <<>> THEN 0 ELSE Head(wd).contentLength + SumContent(Tail(wd))

\* ByteEfficiencyAudit.estimateTransferSize: the observed transfer size of the
\* network record.
estimateTransferSize(record, totalBytes, resourceType) == record.transferSize

determineLengths(wd, record) ==
  [content |-> SumContent(wd),
   unused |-> SumUnused(wd),
   transfer |-> estimateTransferSize(record, SumContent(wd), "Script")]

WastedRatio(wd) == OrZero(JSDiv(SumUnused(wd), SumContent(wd)))

mergeWaste(wd, url, lens) ==
  LET wastedRatio == WastedRatio(wd)
  IN [url |-> url,
      totalBytes |-> lens.transfer,
      wastedBytes |-> MathRound(JSMul(lens.transfer, wastedRatio)),
      wastedPercent |-> JSMul(100, wastedRatio)]

\* ------------------------------------------------- createSourceWastedBytes

\* The index of the first "\n" of a string, 0 if it has none.
RECURSIVE IndexOfNewline(_, _)
IndexOfNewline(str, i) ==
  IF i > Len(str) THEN 0
  ELSE IF str[i] = "\n" THEN i ELSE IndexOfNewline(str, i + 1)

\* content.split('\n')
RECURSIVE Split(_)
Split(str) ==
  LET k == IndexOfNewline(str, 1)
  IN IF k = 0 THEN <<str>>
     ELSE <<SubSeq(str, 1, k - 1)>> \o Split(SubSeq(str, k + 1, Len(str)))

LineLengths(content) == LET lines == Split(content) IN [l \in 1..Len(lines) |-> Len(lines[l])]

\* lineLengths.map(len => {const retVal = totalSoFar; totalSoFar += len + 1; ...})
RECURSIVE LineOffsets(_, _)
LineOffsets(lineLengths, totalSoFar) ==
  IF lineLengths = <<>> THEN <<>>
  ELSE <<totalSoFar>> \o LineOffsets(Tail(lineLengths), totalSoFar + Head(lineLengths) + 1)

\* SourceMap.computeLastGeneratedColumns: an entry's lastColumnNumber becomes
\* the column of the next entry when that one is on the same line.
computeLastGeneratedColumns(mappings) ==
  [m \in 1..Len(mappings) |->
     IF m < Len(mappings) /\ mappings[m].lineNumber = mappings[m + 1].lineNumber
     THEN [mappings[m] EXCEPT !.lastColumnNumber = Some(mappings[m + 1].columnNumber)]
     ELSE mappings[m]]

\* (mapping.lastColumnNumber - 1) || lineLengths[mapping.lineNumber]:
\* undefined - 1 is NaN, and NaN and 0 are falsy.
LastColumnOfMapping(mapping, lineLengths) ==
  IF IsSome(mapping.lastColumnNumber) /\ Val(mapping.lastColumnNumber) - 1 # 0
  THEN Val(mapping.lastColumnNumber) - 1
  ELSE lineLengths[mapping.lineNumber + 1]

\* EveryUnused as wasteData.some(...).
SomeUnused(wd, offset) ==
  \E k \in 1..Len(wd) : IsUnusedAt(wd[k].unusedByIndex, offset)

\* wasteData.every(data => data.unusedByIndex[offset] === 1)
EveryUnused(wd, offset) ==
  \A k \in 1..Len(wd) : IsUnusedAt(wd[k].unusedByIndex, offset)

\* files[key] = (files[key] || 0) + 1
Increment(files, key) ==
  IF \E e \in 1..Len(files) : files[e][1] = key
  THEN [e \in 1..Len(files) |->
          IF files[e][1] = key THEN <<key, files[e][2] + 1>> ELSE files[e]]
  ELSE Append(files, <<key, 1>>)

\* for (let i = mapping.columnNumber; i <= lastColumnOfMapping; i++) {...}
RECURSIVE ColumnLoop(_, _, _, _, _, _)
ColumnLoop(i, lastColumnOfMapping, offset, wd, sourceURL, files) ==
  IF i > lastColumnOfMapping THEN files
  ELSE ColumnLoop(i + 1, lastColumnOfMapping, offset + 1, wd, sourceURL,
                  IF EveryUnused(wd, offset) THEN Increment(files, sourceURL) ELSE files)

RECURSIVE MappingLoop(_, _, _, _, _)
MappingLoop(mappings, lineLengths, lineOffsets, wd, files) ==
  IF mappings = <<>> THEN files
  ELSE LET mapping == Head(mappings)
           offset == lineOffsets[mapping.lineNumber + 1] + mapping.columnNumber
       IN MappingLoop(Tail(mappings), lineLengths, lineOffsets, wd,
                      ColumnLoop(mapping.columnNumber,
                                 LastColumnOfMapping(mapping, lineLengths),
                                 offset, wd, mapping.sourceURL, files))

\* Compare as unusedBytes1 - unusedBytes2.
CompareAscending(entry1, entry2) == entry1[2] - entry2[2]

\* The comparator of the sort: unusedBytes2 - unusedBytes1.
Compare(entry1, entry2) == entry2[2] - entry1[2]

\* Inserts an entry into a sorted sequence after every entry it does not
\* precede: the sort is stable.
RECURSIVE InsertSorted(_, _)
InsertSorted(sorted, entry) ==
  IF sorted = <<>> THEN <<entry>>
  ELSE IF Compare(Head(sorted), entry) > 0
       THEN <<entry>> \o sorted
       ELSE <<Head(sorted)>> \o InsertSorted(Tail(sorted), entry)

\* Object.entries(files).sort(...)
RECURSIVE SortEntries(_, _)
SortEntries(entries, sorted) ==
  IF entries = <<>> THEN sorted
  ELSE SortEntries(Tail(entries), InsertSorted(sorted, Head(entries)))

\* None is the bare return of a bundle without content.
createSourceWastedBytes(wd, bndl, lens) ==
  IF ~IsSome(bndl.script.content) \/ Val(bndl.script.content) = <<>> THEN None
  ELSE LET lineLengths == LineLengths(Val(bndl.script.content))
           lineOffsets == LineOffsets(lineLengths, 0)
           mappings == computeLastGeneratedColumns(bndl.map.mappings)
           files == MappingLoop(mappings, lineLengths, lineOffsets, wd, <<>>)
       IN Some(SortEntries(files, <<>>))

\* ------------------------------------------------------------------ inputs

\* The execution counts of a range: never run, or run.
Counts == {0, 1}

Offsets == -1..MaxOffset

\* Every range over the offsets, the structurally invalid ones included.
Ranges == [startOffset : Offsets, endOffset : Offsets, count : Counts]

WellFormedRange(r) == r.startOffset >= 0 /\ r.endOffset >= r.startOffset

\* The ways to cut a sequence of ranges into consecutive functions.
RECURSIVE Splits(_)
Splits(s) ==
  IF s = <<>> THEN {<<>>}
  ELSE UNION {{<<SubSeq(s, 1, k)>> \o rest : rest \in Splits(SubSeq(s, k + 1, Len(s)))} :
              k \in 1..Len(s)}

WellFormedRanges == {r \in Ranges : WellFormedRange(r)}

\* Coverages of one function with one well-formed, non-empty range, and the
\* coverage without functions.
SimpleCoverages ==
  {<<>>} \cup {<< <<r>> >> : r \in {q \in WellFormedRanges : q.startOffset < q.endOffset}}

\* The simple coverages whose range starts at offset 0 and never ran (the
\* script is unused up to some offset), and the one whose range spans every
\* offset and ran.
AttributionCoverages ==
  {c \in SimpleCoverages \ {<<>>} :
     /\ c[1][1].startOffset = 0
     /\ (c[1][1].count = 0 \/ c[1][1].endOffset = MaxOffset)}

Chars == {"x", "\n"}

\* The positions of a text in reading order: every line with every column
\* from 0 to the line's length.
Positions(content) ==
  LET lineLengths == LineLengths(content)
      lineOffsets == LineOffsets(lineLengths, 0)
      total == Len(content) + 1
      LineOf(p) == CHOOSE l \in 1..Len(lineLengths) :
                     lineOffsets[l] <= p /\ p <= lineOffsets[l] + lineLengths[l]
  IN [p \in 1..total |-> [lineNumber |-> LineOf(p - 1) - 1,
                          columnNumber |-> p - 1 - lineOffsets[LineOf(p - 1)]]]

\* The mapping entries of a source map that maps position p to sourceAt[p],
\* in the order of the positions ("" maps the position to nothing).
RECURSIVE MappingsOf(_, _, _)
MappingsOf(positions, sourceAt, p) ==
  IF p > Len(positions) THEN <<>>
  ELSE (IF sourceAt[p] = "" THEN <<>>
        ELSE << [lineNumber |-> positions[p].lineNumber,
                 columnNumber |-> positions[p].columnNumber,
                 sourceURL |-> sourceAt[p],
                 lastColumnNumber |-> None] >>)
       \o MappingsOf(positions, sourceAt, p + 1)

BundleOf(content, mappings) ==
  [script |-> [content |-> content], map |-> [mappings |-> mappings]]

Sources == {"a.js", "b.js"}

Url == "https://example.com/script.js"

\* The two-line bundle: line 0 belongs to a.js, line 1 to b.js.
SampleBundle ==
  [script |-> [content |-> Some(<<"x", "\n", "x">>)],
   map |-> [mappings |->
     << [lineNumber |-> 0, columnNumber |-> 0, sourceURL |-> "a.js", lastColumnNumber |-> None],
        [lineNumber |-> 1, columnNumber |-> 0, sourceURL |-> "b.js", lastColumnNumber |-> None] >>]]

\* ------------------------------------------------------------ compute_

TypeOK ==
  /\ pc \in {"start", "done"}
  /\ settled \in {"pending", "fulfilled", "rejected"}

InitLocals ==
  /\ pc = "start"
  /\ wasteData = <<>>
  /\ lengths = None
  /\ item = None
  /\ settled = "pending"
  /\ result = None

\* scriptCoverages.map(UnusedJavascriptSummary.computeWaste)
MapComputeWaste(coverages) == [k \in 1..Len(coverages) |-> computeWaste(coverages[k])]

\* {...item, sourcesWastedBytes: ...}: the key is always set, to undefined
\* (None) when createSourceWastedBytes returns nothing.
WithSources(summary, sources) ==
  [k \in DOMAIN summary \cup {"sourcesWastedBytes"} |->
     IF k = "sourcesWastedBytes" THEN sources ELSE summary[k]]

\* compute_ without a bundle: returns item.
ComputeItem ==
  /\ pc = "start"
  /\ ~IsSome(bundle)
  /\ LET wd == MapComputeWaste(scriptCoverages)
         lens == determineLengths(wd, networkRecord)
         it == mergeWaste(wd, networkRecord.url, lens)
     IN /\ wasteData' = wd
        /\ lengths' = Some(lens)
        /\ item' = Some(it)
        /\ result' = Some(it)
  /\ settled' = "fulfilled"
  /\ pc' = "done"
  /\ UNCHANGED <<networkRecord, scriptCoverages, bundle>>

\* compute_ with a bundle: returns item with sourcesWastedBytes.
ComputeWithBundle ==
  /\ pc = "start"
  /\ IsSome(bundle)
  /\ LET wd == MapComputeWaste(scriptCoverages)
         lens == determineLengths(wd, networkRecord)
         it == mergeWaste(wd, networkRecord.url, lens)
     IN /\ wasteData' = wd
        /\ lengths' = Some(lens)
        /\ item' = Some(it)
        /\ result' = Some(WithSources(it, createSourceWastedBytes(wd, Val(bundle), lens)))
  /\ settled' = "fulfilled"
  /\ pc' = "done"
  /\ UNCHANGED <<networkRecord, scriptCoverages, bundle>>

Next == ComputeItem \/ ComputeWithBundle

\* ------------------------------------------------------------ properties

RECURSIVE SeqSum(_)
SeqSum(ints) == IF ints = <<>> THEN 0 ELSE Head(ints) + SeqSum(Tail(ints))

RECURSIVE Flatten(_)
Flatten(functions) ==
  IF functions = <<>> THEN <<>> ELSE Head(functions) \o Flatten(Tail(functions))

Covers(range, i) == range.startOffset <= i /\ i < range.endOffset

\* The ranges of a coverage, in processing order.
RangesOf(coverage) == Flatten(coverage)

WellFormedCoverage(coverage) ==
  \A r \in 1..Len(RangesOf(coverage)) : WellFormedRange(RangesOf(coverage)[r])

\* Some range that never ran spans offset i.
UnusedRangeAt(coverage, i) ==
  \E r \in 1..Len(RangesOf(coverage)) :
    RangesOf(coverage)[r].count = 0 /\ Covers(RangesOf(coverage)[r], i)

LargestEndOffset(coverage) ==
  LET ends == {RangesOf(coverage)[r].endOffset : r \in 1..Len(RangesOf(coverage))} \cup {0}
  IN CHOOSE e \in ends : \A f \in ends : f <= e

\* The ranges that never ran tile [0, length): each offset lies in exactly
\* one of them.
Tiles(coverage, length) ==
  \A i \in 0..(length - 1) :
    Cardinality({r \in 1..Len(RangesOf(coverage)) :
                   RangesOf(coverage)[r].count = 0 /\ Covers(RangesOf(coverage)[r], i)}) = 1

Done == pc = "done"

\* C9: for a well-formed coverage computeWaste returns contentLength = the
\* largest endOffset (0 without ranges), a bitmap of that length that marks
\* offset i exactly when a range with count 0 spans i, and unusedLength = the
\* number of marked offsets, between 0 and contentLength; unusedLength =
\* contentLength when the ranges with count 0 tile [0, contentLength).
C9_ComputeWasteMarksUnusedRanges ==
  Done =>
    \A k \in 1..Len(scriptCoverages) :
      LET coverage == scriptCoverages[k]
          data == wasteData[k]
          marked == {i \in 0..(Len(data.unusedByIndex) - 1) : data.unusedByIndex[i + 1] = 1}
      IN WellFormedCoverage(coverage) =>
           /\ data.contentLength = LargestEndOffset(coverage)
           /\ Len(data.unusedByIndex) = data.contentLength
           /\ \A i \in 0..(data.contentLength - 1) :
                /\ data.unusedByIndex[i + 1] \in {0, 1}
                /\ (i \in marked) <=> UnusedRangeAt(coverage, i)
           /\ data.unusedLength = Cardinality(marked)
           /\ 0 <= data.unusedLength /\ data.unusedLength <= data.contentLength
           /\ (Tiles(coverage, data.contentLength) => data.unusedLength = data.contentLength)

\* C9 witness: computeWaste has run on a coverage of two ranges, one that
\* ran and one that did not, that is partly unused.
C9_Witness ==
  /\ Done
  /\ Len(RangesOf(scriptCoverages[1])) = 2
  /\ \E r \in 1..2 : RangesOf(scriptCoverages[1])[r].count # 0
  /\ wasteData[1].unusedLength > 0
  /\ wasteData[1].unusedLength < wasteData[1].contentLength

\* The last range in processing order that spans offset i, 0 if none does.
LastRangeAt(coverage, i) ==
  LET spans == {r \in 1..Len(RangesOf(coverage)) : Covers(RangesOf(coverage)[r], i)}
  IN IF spans = {} THEN 0 ELSE CHOOSE r \in spans : \A q \in spans : q <= r

\* C8 as stated: a later-processed range overwrites the marks an earlier range
\* left at the offsets they share, so that the last range that spans an
\* offset decides its mark and the processing order changes the bitmap.
C8_LaterRangeOverwritesMarks ==
  Done =>
    \A k \in 1..Len(scriptCoverages) : \A i \in 0..(Len(wasteData[k].unusedByIndex) - 1) :
      LET last == LastRangeAt(scriptCoverages[k], i)
      IN last # 0 =>
           (wasteData[k].unusedByIndex[i + 1] = 1
              <=> RangesOf(scriptCoverages[k])[last].count = 0)

OrdersOf(n) == {p \in [1..n -> 1..n] : \A a, b \in 1..n : p[a] = p[b] => a = b}

\* The coverages that hold the ranges of a coverage in any processing order
\* and any grouping into functions.
Reorderings(coverage) ==
  LET ranges == RangesOf(coverage)
  IN UNION {Splits([r \in 1..Len(ranges) |-> ranges[p[r]]]) : p \in OrdersOf(Len(ranges))}

\* C8 as amended: computeWaste does not depend on the processing order: a
\* range that ran clears no mark, and two coverages that hold the same ranges
\* in a different order yield the same bitmap, unusedLength and contentLength.
C8_ComputeWasteOrderIndependent ==
  Done =>
    \A k \in 1..Len(scriptCoverages) : \A other \in Reorderings(scriptCoverages[k]) :
      computeWaste(other) = wasteData[k]

\* C8 witness: computeWaste has run on two functions whose ranges overlap,
\* the first never ran and the second ran, and the shared offset is marked.
C8_Witness ==
  /\ Done
  /\ Len(scriptCoverages[1]) = 2
  /\ Len(scriptCoverages[1][1]) = 1 /\ Len(scriptCoverages[1][2]) = 1
  /\ scriptCoverages[1][1][1].count = 0
  /\ scriptCoverages[1][2][1].count # 0
  /\ \E i \in 0..(Len(wasteData[1].unusedByIndex) - 1) :
       /\ Covers(scriptCoverages[1][1][1], i)
       /\ Covers(scriptCoverages[1][2][1], i)
       /\ wasteData[1].unusedByIndex[i + 1] = 1

\* C3: a coverage with a structurally invalid range (a negative offset, or
\* endOffset < startOffset) makes the whole computation fail: compute_
\* rejects and produces no Summary.
C3_InvalidCoverageFails ==
  (Done /\ \E k \in 1..Len(scriptCoverages) : ~WellFormedCoverage(scriptCoverages[k]))
    => (settled = "rejected" /\ result = None)


\* U and C: the sums of unusedLength and of contentLength over the executions.
UnusedTotal == SeqSum([k \in 1..Len(wasteData) |-> wasteData[k].unusedLength])

ContentTotal == SeqSum([k \in 1..Len(wasteData) |-> wasteData[k].contentLength])

\* The value of a number is the rational n / d.
IsRational(x, n, d) == x.kind = "num" /\ x.num * d = n * x.den

\* The integer w is n / d rounded to the nearest integer, a half rounded up.
IsRounded(w, n, d) == 2 * d * w <= 2 * n + d /\ 2 * n + d < 2 * d * (w + 1)

C5_ZeroContentYieldsZero ==
  (Done /\ ContentTotal = 0) =>
    /\ Val(item).wastedBytes.kind = "num" /\ Val(item).wastedPercent.kind = "num"
    /\ IsRational(Val(item).wastedBytes, 0, 1)
    /\ IsRational(Val(item).wastedPercent, 0, 1)
    /\ IsRational(Val(result).wastedBytes, 0, 1)
    /\ IsRational(Val(result).wastedPercent, 0, 1)

\* C5 witness: compute has returned for executions without ranges and a
\* positive transfer estimate.
C5_Witness ==
  /\ Done
  /\ Len(scriptCoverages) > 0
  /\ ContentTotal = 0
  /\ networkRecord.transferSize > 0

\* The bundle is supplied and has text.
HasContent ==
  /\ IsSome(bundle)
  /\ IsSome(Val(bundle).script.content)
  /\ Val(Val(bundle).script.content) # <<>>

\* C6: the Summary has a sourcesWastedBytes field only when a bundle with
\* text was supplied; without a bundle, or with a bundle whose text is
\* missing or empty, the Summary has no such field, and its other fields are
\* those of the Summary without a bundle.
C6_FieldOnlyWithBundleContent ==
  Done =>
    /\ ("sourcesWastedBytes" \in DOMAIN Val(result)) <=> HasContent
    /\ \A f \in {"url", "totalBytes", "wastedBytes", "wastedPercent"} :
         Val(result)[f] = Val(item)[f]

\* The mapping that compute attached to the Summary.
SourcesWastedBytes == Val(Val(result).sourcesWastedBytes)

Attached ==
  /\ Done
  /\ HasContent
  /\ "sourcesWastedBytes" \in DOMAIN Val(result)
  /\ IsSome(Val(result).sourcesWastedBytes)

\* The count of a source in the attached mapping, 0 if it has no entry.
CountOf(source) ==
  SeqSum([e \in 1..Len(SourcesWastedBytes) |->
            IF SourcesWastedBytes[e][1] = source THEN SourcesWastedBytes[e][2] ELSE 0])

\* The offset is marked unused in every bitmap; an offset outside a bitmap
\* counts as used.
UnusedInEveryExecution(offset) ==
  \A k \in 1..Len(wasteData) :
    /\ offset \in 0..(Len(wasteData[k].unusedByIndex) - 1)
    /\ wasteData[k].unusedByIndex[offset + 1] = 1

\* The mapping entries with the next-column values of the source map.
ResolvedMappings == computeLastGeneratedColumns(Val(bundle).map.mappings)

BundleLineLengths == LineLengths(Val(Val(bundle).script.content))

\* The last column the code gives an entry.
CodeLastColumn(mapping, lineLengths) == LastColumnOfMapping(mapping, lineLengths)

\* The last column of C4: lastColumnNumber - 1 when the entry has a
\* next-column value, the line's length when it has none.
StatedLastColumn(mapping, lineLengths) ==
  IF IsSome(mapping.lastColumnNumber)
  THEN Val(mapping.lastColumnNumber) - 1
  ELSE lineLengths[mapping.lineNumber + 1]

\* The bytes of every source, given the last column of every entry: the
\* number of offsets of the source's entries, from lineOffset[line] + column
\* to lineOffset[line] + the last column, that are unused in every execution.
BytesBySource(LastColumn(_, _)) ==
  LET mappings == ResolvedMappings
      lineLengths == BundleLineLengths
      lineOffsets == LineOffsets(lineLengths, 0)
      bytes == [m \in 1..Len(mappings) |->
                  Cardinality({i \in mappings[m].columnNumber..LastColumn(mappings[m], lineLengths) :
                                 UnusedInEveryExecution(lineOffsets[mappings[m].lineNumber + 1] + i)})]
  IN [source \in Sources |->
        SeqSum([m \in 1..Len(mappings) |->
                  IF mappings[m].sourceURL = source THEN bytes[m] ELSE 0])]

\* C1: determineLengths sums unusedLength and contentLength over the
\* executions, while createSourceWastedBytes counts an offset of an entry's
\* range for the entry's source only if every bitmap marks it unused (an
\* offset outside a bitmap counts as used): when one execution used every
\* byte, no source is attributed a byte although the unused total is the sum.
C1_AttributionRequiresEveryExecution ==
  Done =>
    /\ Val(lengths).unused = UnusedTotal
    /\ Val(lengths).content = ContentTotal
    /\ Attached =>
         /\ LET bytes == BytesBySource(CodeLastColumn)
            IN \A source \in Sources : CountOf(source) = bytes[source]
         /\ (\E k \in 1..Len(wasteData) : wasteData[k].unusedLength = 0)
              => SourcesWastedBytes = <<>>

\* C1 witness: two executions of the same script, one fully unused and one
\* fully used, with a bundle that maps the script: the unused total is
\* positive and nothing is attributed.
C1_Witness ==
  /\ Attached
  /\ Len(wasteData) = 2
  /\ wasteData[1].contentLength = MaxOffset /\ wasteData[1].unusedLength = MaxOffset
  /\ wasteData[2].contentLength = MaxOffset /\ wasteData[2].unusedLength = 0
  /\ Val(lengths).content = 2 * MaxOffset /\ Val(lengths).unused = MaxOffset
  /\ Len(ResolvedMappings) > 0
  /\ SourcesWastedBytes = <<>>

\* C4: an entry covers the offsets from lineOffset[line] + column up to and
\* including lineOffset[line] + (lastColumn - 1) whenever the source map
\* gives it a next-column value lastColumn, also when lastColumn is 1, and up
\* to the line's length only when it has no next-column value.
C4_EntryEndsBeforeNextColumn ==
  Attached =>
    LET bytes == BytesBySource(StatedLastColumn)
    IN \A source \in Sources : CountOf(source) = bytes[source]

\* C7: the attached mapping is in descending order of count, and it holds
\* exactly the sources that were attributed at least one unused byte, each
\* once.
C7_SortedDescendingPositiveCounts ==
  Attached =>
    /\ \A e \in 1..(Len(SourcesWastedBytes) - 1) :
         SourcesWastedBytes[e][2] >= SourcesWastedBytes[e + 1][2]
    /\ \A e \in 1..Len(SourcesWastedBytes) : SourcesWastedBytes[e][2] > 0
    /\ \A e, f \in 1..Len(SourcesWastedBytes) :
         SourcesWastedBytes[e][1] = SourcesWastedBytes[f][1] => e = f
    /\ LET bytes == BytesBySource(CodeLastColumn)
       IN \A source \in Sources :
            (\E e \in 1..Len(SourcesWastedBytes) : SourcesWastedBytes[e][1] = source)
              <=> bytes[source] > 0

\* C7 witness: the source mapped first was attributed fewer bytes than the
\* source mapped after it, so that the sort moved it behind.
C7_Witness ==
  /\ Attached
  /\ Len(wasteData) > 0
  /\ Len(SourcesWastedBytes) = 2
  /\ SourcesWastedBytes[1][2] > SourcesWastedBytes[2][2]
  /\ SourcesWastedBytes[2][1] = ResolvedMappings[1].sourceURL

\* C10: the counts of the attached mapping sum to at most the unused total
\* that determineLengths reports for the executions, and to at most the
\* unusedLength of each execution.
C10_SourcesBoundedByUnusedTotal ==
  Attached =>
    LET attributed == SeqSum([e \in 1..Len(SourcesWastedBytes) |-> SourcesWastedBytes[e][2]])
    IN /\ attributed <= Val(lengths).unused
       /\ \A k \in 1..Len(wasteData) : attributed <= wasteData[k].unusedLength

\* The inputs of the range marker: one execution of up to MaxRanges
\* well-formed ranges in any grouping into functions, without a bundle, and
\* every single-range execution with the sample bundle.
InitMarker ==
  /\ networkRecord = [url |-> Url, transferSize |-> MaxTransfer]
  /\ \/ /\ \E n \in 0..MaxRanges : \E s \in [1..n -> WellFormedRanges] :
             \E c \in Splits(s) \cup {<< <<>> >>} : scriptCoverages = <<c>>
        /\ bundle = None
     \/ /\ \E r \in WellFormedRanges : scriptCoverages = << << <<r>> >> >>
        /\ bundle = Some(SampleBundle)
  /\ InitLocals

SpecMarker == InitMarker /\ [][Next]_vars

\* The inputs of the range marker with structurally invalid ranges among them.
InitInvalid ==
  /\ networkRecord = [url |-> Url, transferSize |-> MaxTransfer]
  /\ \E n \in 1..MaxRanges : \E s \in [1..n -> Ranges] :
       \E c \in Splits(s) : scriptCoverages = <<c>>
  /\ bundle \in {None, Some(SampleBundle)}
  /\ InitLocals

SpecInvalid == InitInvalid /\ [][Next]_vars

\* The inputs of the aggregator: up to MaxExecs simple executions, every
\* transfer size, and no bundle, a bundle without content, a bundle with
\* empty content or the sample bundle.
InitAggregate ==
  /\ \E t \in 0..MaxTransfer : networkRecord = [url |-> Url, transferSize |-> t]
  /\ \E n \in 0..MaxExecs : scriptCoverages \in [1..n -> SimpleCoverages]
  /\ bundle \in {None, Some(BundleOf(None, <<>>)), Some(BundleOf(Some(<<>>), <<>>)),
                 Some(SampleBundle)}
  /\ InitLocals

SpecAggregate == InitAggregate /\ [][Next]_vars

\* The inputs of the attribution: up to MaxExecs executions, each unused up
\* to some offset or fully used, and every text of up to MaxContent characters with every
\* source map over its positions; and the executions alone, without a bundle.
InitAttribution ==
  /\ networkRecord = [url |-> Url, transferSize |-> MaxTransfer]
  /\ \E n \in 0..MaxExecs : scriptCoverages \in [1..n -> AttributionCoverages]
  /\ \/ bundle = None
     \/ \E n \in 0..MaxContent : \E content \in [1..n -> Chars] :
          \E sourceAt \in [1..(n + 1) -> Sources \cup {""}] :
            bundle = Some(BundleOf(Some(content),
                                   MappingsOf(Positions(content), sourceAt, 1)))
  /\ InitLocals

SpecAttribution == InitAttribution /\ [][Next]_vars

====
